---- MODULE Spec2Model ----
(***************************************************************************)
(* A model of version_query.version.Version: the grammar and the parser    *)
(* (from_str), the validating constructor, to_str, the tuple projections   *)
(* and the ordering (__lt__ and the operators derived from it).            *)
(*                                                                         *)
(* Python values are tagged tuples, so that None, an int, a str, a tuple   *)
(* and a list stay distinguishable the way isinstance distinguishes them.  *)
(* A str is a sequence of one-character strings.  An operation that can    *)
(* raise returns [exc |-> <exception name or "none">, val |-> <result>].   *)
(***************************************************************************)
EXTENDS Integers, Sequences, FiniteSets, TLC

VARIABLES pc, text, call, a, b, c, err, out

vars == <<pc, text, call, a, b, c, err, out>>

-----------------------------------------------------------------------------
(* Python values *)

PyNone == <<"None">>
PyInt(n) == <<"int", n>>
PyStr(s) == <<"str", s>>
PyTuple(xs) == <<"tuple", xs>>
PyList(xs) == <<"list", xs>>

Dot == PyStr(<<".">>)
Dash == PyStr(<<"-">>)

TypeOf(x) == x[1]
IsNone(x) == TypeOf(x) = "None"
IsInt(x) == TypeOf(x) = "int"
IsStr(x) == TypeOf(x) = "str"
IsTuple(x) == TypeOf(x) = "tuple"
IsList(x) == TypeOf(x) = "list"
ValOf(x) == x[2]

\* x == y of Python, for the values the model uses
PyEq(x, y) == TypeOf(x) = TypeOf(y) /\ x = y

Ok(v) == [exc |-> "none", val |-> v]
Raise(e) == [exc |-> e, val |-> PyNone]

Max(S) == CHOOSE x \in S : \A y \in S : y <= x

-----------------------------------------------------------------------------
(* Characters and strings *)

DigitChars == <<"0", "1", "2", "3", "4", "5", "6", "7", "8", "9">>
LowerChars == <<"a", "b", "c", "d", "e", "f", "g", "h", "i", "j", "k", "l", "m",
                "n", "o", "p", "q", "r", "s", "t", "u", "v", "w", "x", "y", "z">>
UpperChars == <<"A", "B", "C", "D", "E", "F", "G", "H", "I", "J", "K", "L", "M",
                "N", "O", "P", "Q", "R", "S", "T", "U", "V", "W", "X", "Y", "Z">>

Range(f) == {f[i] : i \in DOMAIN f}
IndexOf(ch, seq) == CHOOSE i \in DOMAIN seq : seq[i] = ch

IsDigit(ch) == ch \in Range(DigitChars)
IsNonZeroDigit(ch) == IsDigit(ch) /\ ch # "0"
IsLower(ch) == ch \in Range(LowerChars)
IsUpper(ch) == ch \in Range(UpperChars)
\* _re_letters, _re_alphanumeric and _re_sep as character classes
IsLetter(ch) == IsLower(ch) \/ IsUpper(ch)
IsAlphanumeric(ch) == IsDigit(ch) \/ IsLetter(ch)
IsSep(ch) == ch \in {".", "-"}

\* code point of a character, for str < str
Ord(ch) ==
    IF IsDigit(ch) THEN 47 + IndexOf(ch, DigitChars)
    ELSE IF IsUpper(ch) THEN 64 + IndexOf(ch, UpperChars)
    ELSE IF IsLower(ch) THEN 96 + IndexOf(ch, LowerChars)
    ELSE IF ch = "+" THEN 43
    ELSE IF ch = "-" THEN 45
    ELSE IF ch = "." THEN 46
    ELSE 32

\* str.lower()
LowerChar(ch) == IF IsUpper(ch) THEN LowerChars[IndexOf(ch, UpperChars)] ELSE ch
Lower(s) == [i \in DOMAIN s |-> LowerChar(s[i])]

\* str < str: lexicographic by code point, a proper prefix is smaller
RECURSIVE StrLess(_, _)
StrLess(s, t) ==
    IF t = <<>> THEN FALSE
    ELSE IF s = <<>> THEN TRUE
    ELSE IF s[1] # t[1] THEN Ord(s[1]) < Ord(t[1])
    ELSE StrLess(Tail(s), Tail(t))

\* str(int)
RECURSIVE NatToStr(_)
NatToStr(n) ==
    IF n < 10 THEN <<DigitChars[n + 1]>>
    ELSE NatToStr(n \div 10) \o <<DigitChars[(n % 10) + 1]>>

IntToStr(n) == IF n < 0 THEN <<"-">> \o NatToStr(0 - n) ELSE NatToStr(n)

\* int(str) for a string of digits
RECURSIVE StrToInt(_)
StrToInt(s) ==
    IF s = <<>> THEN 0
    ELSE 10 * StrToInt(SubSeq(s, 1, Len(s) - 1)) + (IndexOf(s[Len(s)], DigitChars) - 1)

RECURSIVE Concat(_)
Concat(ss) == IF ss = <<>> THEN <<>> ELSE Head(ss) \o Concat(Tail(ss))

-----------------------------------------------------------------------------
(* The grammar.  A sub-pattern is modelled by the set of positions at which *)
(* a match that starts at position i can end (the position of the next     *)
(* character); Python's backtracking explores exactly these.               *)

Digits == Range(DigitChars)
Letters == Range(LowerChars) \cup Range(UpperChars)

\* [chars]+ : the ends of the runs of characters of the class chars from i
RunEnds(s, i, chars) == {j \in (i + 1)..(Len(s) + 1) : \A k \in i..(j - 1) : s[k] \in chars}

\* _re_number: 0 | [1-9][0-9]*
NumberEnds(s, i) ==
    IF i > Len(s) THEN {}
    ELSE IF s[i] = "0" THEN {i + 1}
    ELSE IF IsNonZeroDigit(s[i]) THEN RunEnds(s, i, Digits)
    ELSE {}

LettersEnds(s, i) == RunEnds(s, i, Letters)
AlphanumericEnds(s, i) == RunEnds(s, i, Digits \cup Letters)
SepEnds(s, i) == IF i <= Len(s) /\ IsSep(s[i]) THEN {i + 1} ELSE {}
DotNumberEnds(s, i) == IF i <= Len(s) /\ s[i] = "." THEN NumberEnds(s, i + 1) ELSE {}

\* _re_release: number(\.number)?(\.number)?
ReleaseEnds(s, i) ==
    LET one == NumberEnds(s, i)
        two == UNION {DotNumberEnds(s, j) : j \in one}
        three == UNION {DotNumberEnds(s, j) : j \in two}
    IN  one \cup two \cup three

\* one pre-release segment: (sep number) | (sep? letters number?)
PreSegmentEnds(s, i) ==
    LET alt1 == UNION {NumberEnds(s, j) : j \in SepEnds(s, i)}
        lets == UNION {LettersEnds(s, j) : j \in {i} \cup SepEnds(s, i)}
        alt2 == lets \cup UNION {NumberEnds(s, j) : j \in lets}
    IN  alt1 \cup alt2

\* (segment)+ : the positions one or more segments from i can reach
RECURSIVE SegmentsReach(_, _, _)
SegmentsReach(s, frontier, seen) ==
    LET next == (UNION {PreSegmentEnds(s, j) : j \in frontier}) \ seen
    IN  IF next = {} THEN seen ELSE SegmentsReach(s, next, seen \cup next)

PreReleaseEnds(s, i) == SegmentsReach(s, {i}, {})

\* ([\.-]alphanumeric)* from the positions in frontier
RECURSIVE LocalReach(_, _, _)
LocalReach(s, frontier, seen) ==
    LET next == (UNION {UNION {AlphanumericEnds(s, k) : k \in SepEnds(s, j)}
                        : j \in frontier}) \ seen
    IN  IF next = {} THEN seen ELSE LocalReach(s, next, seen \cup next)

\* _re_local: \+alphanumeric([\.-]alphanumeric)*
LocalEnds(s, i) ==
    IF i <= Len(s) /\ s[i] = "+"
    THEN LET first == AlphanumericEnds(s, i + 1) IN LocalReach(s, first, first)
    ELSE {}

-----------------------------------------------------------------------------
(* Matching and parsing *)

\* the order in which a greedy pattern tries its alternatives: longest first,
\* group by group from the left
LexPrefer(x, y) ==
    \E k \in 1..Len(x) : x[k] > y[k] /\ \A h \in 1..(k - 1) : x[h] = y[h]

Preferred(cands) == CHOOSE x \in cands : \A y \in cands : x = y \/ LexPrefer(x, y)

\* the match the pattern finds among the candidates, <<>> when there is none
Best(cands) == IF cands = {} THEN <<>> ELSE Preferred(cands)

Sub(s, i, j) == SubSeq(s, i, j - 1)

\* a slip: match instead of fullmatch, so that the string may go on after the version
PrefixTails(s, r) == {r} \cup PreReleaseEnds(s, r)

\* the ends p of an optional pre-release after which an optional local part ends the
\* string (fullmatch requires the end of the string)
FullTails(s, r) ==
    {p \in {r} \cup PreReleaseEnds(s, r) : p = Len(s) + 1 \/ (Len(s) + 1) \in LocalEnds(s, p)}

\* the groups release, prerelease and local of the match m: the release ends at m[1],
\* the pre-release at m[2]
VersionGroups(s, m) ==
    IF m = <<>> THEN [matched |-> FALSE, release |-> PyNone, prerelease |-> PyNone,
                      local |-> PyNone]
    ELSE [matched |-> TRUE,
          release |-> PyStr(Sub(s, 1, m[1])),
          prerelease |-> IF m[2] = m[1] THEN PyNone ELSE PyStr(Sub(s, m[1], m[2])),
          local |-> IF m[2] = Len(s) + 1 THEN PyNone ELSE PyStr(Sub(s, m[2], Len(s) + 1))]

\* _pattern_version.fullmatch(version_str)
MatchVersion(s) ==
    VersionGroups(s, Best({<<r, p>> \in (1..(Len(s) + 1)) \X (1..(Len(s) + 1)) :
                              r \in ReleaseEnds(s, 1) /\ p \in FullTails(s, r)}))

\* the int() of the groups major, minor and patch of the match x, which end at x[1],
\* x[2] and x[3]; the AttributeError of None.group when there is no match
ReleaseGroups(s, x) ==
    IF x = <<>> THEN Raise("AttributeError")
    ELSE Ok(<<PyInt(StrToInt(Sub(s, 1, x[1]))),
              IF x[2] = x[1] THEN PyNone ELSE PyInt(StrToInt(Sub(s, x[1] + 1, x[2]))),
              IF x[3] = x[2] THEN PyNone ELSE PyInt(StrToInt(Sub(s, x[2] + 1, x[3])))>>)

\* _pattern_release.fullmatch(release) and the int() of its groups
_parse_release_str(s) ==
    ReleaseGroups(s, Best({x \in (1..(Len(s) + 1)) \X (1..(Len(s) + 1)) \X (1..(Len(s) + 1)) :
                              /\ x[1] \in NumberEnds(s, 1)
                              /\ x[2] \in {x[1]} \cup DotNumberEnds(s, x[1])
                              /\ x[3] \in {x[2]} \cup DotNumberEnds(s, x[2])
                              /\ x[3] = Len(s) + 1}))

\* a slip: the number after a separator is not taken greedily, only its first digit
SegmentSearchShortNumber(s, i) ==
    IF SepEnds(s, i) # {} /\ NumberEnds(s, i + 1) # {} THEN i + 2
    ELSE LET j == IF SepEnds(s, i) # {} /\ LettersEnds(s, i + 1) # {} THEN i + 1
                  ELSE IF LettersEnds(s, i) # {} THEN i
                  ELSE 0
         IN  IF j = 0 THEN 0
             ELSE LET l == Max(LettersEnds(s, j))
                  IN  IF NumberEnds(s, l) # {} THEN Max(NumberEnds(s, l)) ELSE l

\* where the first match of _pattern_pre_release that starts at i ends; 0 if none starts
\* there.  The first alternative is tried first; each part takes as much as it can.
SegmentSearchEnd(s, i) ==
    IF SepEnds(s, i) # {} /\ NumberEnds(s, i + 1) # {} THEN Max(NumberEnds(s, i + 1))
    ELSE LET j == IF SepEnds(s, i) # {} /\ LettersEnds(s, i + 1) # {} THEN i + 1
                  ELSE IF LettersEnds(s, i) # {} THEN i
                  ELSE 0
         IN  IF j = 0 THEN 0
             ELSE LET l == Max(LettersEnds(s, j))
                  IN  IF NumberEnds(s, l) # {} THEN Max(NumberEnds(s, l)) ELSE l

\* _pattern_pre_release.findall(pre_release): the non-overlapping matches, left to
\* right; a character at which no match starts is skipped
RECURSIVE FindAll(_, _)
\* the search at i ended at e: the match and the matches after it, or the search goes
\* on at the next character
FindAllFrom(s, i, e) ==
    IF e = 0 THEN FindAll(s, i + 1)
    ELSE <<Sub(s, i, e)>> \o FindAll(s, e)

FindAll(s, i) ==
    IF i > Len(s) THEN <<>>
    ELSE FindAllFrom(s, i, SegmentSearchEnd(s, i))

\* the groups presep, pretype and prepatch of the match x, which end at x[1], x[2] and
\* x[3], the last as an int; the AttributeError of None.group when there is no match
PartGroups(part, x) ==
    IF x = <<>> THEN Raise("AttributeError")
    ELSE Ok(PyTuple(<<
              IF x[1] = 1 THEN PyNone ELSE PyStr(Sub(part, 1, x[1])),
              IF x[2] = x[1] THEN PyNone ELSE PyStr(Sub(part, x[1], x[2])),
              IF x[3] = x[2] THEN PyNone ELSE PyInt(StrToInt(Sub(part, x[2], x[3])))>>))

\* _pattern_pre_release_part.fullmatch(part): sep? letters? number? and its groups
PartMatch(part) ==
    PartGroups(part, Best({x \in (1..(Len(part) + 1)) \X (1..(Len(part) + 1))
                                  \X (1..(Len(part) + 1)) :
                              /\ x[1] \in {1} \cup SepEnds(part, 1)
                              /\ x[2] \in {x[1]} \cup LettersEnds(part, x[1])
                              /\ x[3] \in {x[2]} \cup NumberEnds(part, x[2])
                              /\ x[3] = Len(part) + 1}))

\* the tuple m of one part before the tuples of the parts after it; the first exception
PartsCons(m, rest) ==
    IF m.exc # "none" THEN m
    ELSE IF rest.exc # "none" THEN rest
    ELSE Ok(<<m.val>> \o rest.val)

RECURSIVE PartsToTuples(_)
PartsToTuples(parts) ==
    IF parts = <<>> THEN Ok(<<>>)
    ELSE PartsCons(PartMatch(Head(parts)), PartsToTuples(Tail(parts)))

\* the list that the comprehension over the parts builds
PartsList(tuples) == IF tuples.exc # "none" THEN tuples ELSE Ok(PyList(tuples.val))

_parse_pre_release_str(pre_release) ==
    IF (Len(pre_release) + 1) \notin PreReleaseEnds(pre_release, 1) THEN Raise("ValueError")
    ELSE PartsList(PartsToTuples(FindAll(pre_release, 1)))

\* the tokens part, sep, part, ... of a matched local string, from position i
RECURSIVE LocalTokens(_, _)
LocalTokens(s, i) ==
    IF i > Len(s) THEN <<>>
    ELSE IF IsSep(s[i]) THEN <<<<s[i]>>>> \o LocalTokens(s, i + 1)
    ELSE LET e == Max(AlphanumericEnds(s, i))
         IN  <<Sub(s, i, e)>> \o LocalTokens(s, e)

\* _pattern_local.fullmatch(local).groups() without the None: the pattern has three
\* groups, the first part and the separator and part of the repeated (?:...)*, which
\* hold what the last repetition matched
LocalGroups(toks) ==
    PyTuple(IF Len(toks) = 1 THEN <<PyStr(toks[1])>>
            ELSE <<PyStr(toks[1]), PyStr(toks[Len(toks) - 1]), PyStr(toks[Len(toks)])>>)

_parse_local_str(local) ==
    IF (Len(local) + 1) \notin LocalEnds(local, 1) THEN Raise("AttributeError")
    ELSE Ok(LocalGroups(LocalTokens(local, 2)))

-----------------------------------------------------------------------------
(* Version.__init__ *)

NoVersion == [_major |-> PyNone, _minor |-> PyNone, _patch |-> PyNone,
              _pre_release |-> PyNone, _local |-> PyNone]

\* arg in (None, '.', '-')
IsNoneOrSep(x) == PyEq(x, PyNone) \/ PyEq(x, PyStr(<<".">>)) \/ PyEq(x, PyStr(<<"-">>))

\* x in ('-', '.')
IsSepStr(x) == PyEq(x, PyStr(<<"-">>)) \/ PyEq(x, PyStr(<<".">>))

\* the checks of major, minor and patch, in the order of the code; the exception raised
ReleaseCheck(major, minor, patch) ==
    IF ~IsInt(major) THEN "TypeError"
    ELSE IF ValOf(major) < 0 THEN "ValueError"
    ELSE IF ~IsNone(minor) /\ ~IsInt(minor) THEN "TypeError"
    ELSE IF ~IsNone(minor) /\ ValOf(minor) < 0 THEN "ValueError"
    ELSE IF ~IsNone(patch) /\ ~IsInt(patch) THEN "TypeError"
    ELSE IF ~IsNone(patch) /\ ValOf(patch) < 0 THEN "ValueError"
    ELSE IF IsNone(minor) /\ ~IsNone(patch) THEN "ValueError"
    ELSE "none"

\* the loop over args when args[0] is a tuple: 3-sequences that start with None, '.' or
\* '-' are taken as pre-release segments; only the last arg may be something else
RECURSIVE TupleArgsLoop(_, _, _)
TupleArgsLoop(args, i, pre) ==
    IF i > Len(args) THEN [exc |-> "none", pre |-> pre, consumed |-> Len(pre)]
    ELSE IF IsNone(args[i]) \/ IsInt(args[i])
         THEN [exc |-> "TypeError", pre |-> pre, consumed |-> Len(pre)]
    ELSE IF Len(ValOf(args[i])) = 3
            /\ IsNoneOrSep(IF IsStr(args[i]) THEN PyStr(<<ValOf(args[i])[1]>>)
                           ELSE ValOf(args[i])[1])
         THEN TupleArgsLoop(args, i + 1, Append(pre, args[i]))
    ELSE IF i = Len(args) THEN [exc |-> "none", pre |-> pre, consumed |-> Len(pre)]
    ELSE [exc |-> "ValueError", pre |-> pre, consumed |-> Len(pre)]

\* a slip: only the first three values are taken as a pre-release segment
RECURSIVE FlatArgsFirstSegmentOnly(_, _, _, _, _)
FlatArgsFirstSegmentOnly(args, i, accumulated, pre, consumed) ==
    IF i > Len(args) \/ Len(pre) = 1 THEN [exc |-> "none", pre |-> pre, consumed |-> consumed]
    ELSE IF accumulated = <<>> /\ ~IsNoneOrSep(args[i])
         THEN [exc |-> "none", pre |-> pre, consumed |-> consumed]
    ELSE IF accumulated = <<>> /\ Len(args) < (i - 1) + 3
         THEN [exc |-> "ValueError", pre |-> pre, consumed |-> consumed]
    ELSE IF Len(accumulated) = 2
         THEN FlatArgsFirstSegmentOnly(args, i + 1, <<>>,
                                       Append(pre, PyTuple(Append(accumulated, args[i]))),
                                       consumed + 1)
    ELSE FlatArgsFirstSegmentOnly(args, i + 1, Append(accumulated, args[i]), pre, consumed + 1)

\* the loop over flat args: from a None, '.' or '-' on, three consecutive values make
\* one pre-release segment
RECURSIVE FlatArgsLoop(_, _, _, _, _)
FlatArgsLoop(args, i, accumulated, pre, consumed) ==
    IF i > Len(args) THEN [exc |-> "none", pre |-> pre, consumed |-> consumed]
    ELSE IF accumulated = <<>> /\ ~IsNoneOrSep(args[i])
         THEN [exc |-> "none", pre |-> pre, consumed |-> consumed]
    ELSE IF accumulated = <<>> /\ Len(args) < (i - 1) + 3
         THEN [exc |-> "ValueError", pre |-> pre, consumed |-> consumed]
    ELSE IF Len(accumulated) = 2
         THEN FlatArgsLoop(args, i + 1, <<>>,
                           Append(pre, PyTuple(Append(accumulated, args[i]))), consumed + 1)
    ELSE FlatArgsLoop(args, i + 1, Append(accumulated, args[i]), pre, consumed + 1)

\* pre_release is None: take the pre-release segments from the front of args
\* after the loop r: the segments become pre_release and leave args
Consumed(args, r) ==
    IF r.exc # "none" THEN [exc |-> r.exc, pre_release |-> PyNone, args |-> args]
    ELSE IF r.consumed > 0
         THEN [exc |-> "none", pre_release |-> PyList(r.pre),
               args |-> SubSeq(args, r.consumed + 1, Len(args))]
    ELSE [exc |-> "none", pre_release |-> PyNone, args |-> args]

DecodeArgs(args) ==
    Consumed(args, IF Len(args) > 0 /\ IsTuple(args[1]) THEN TupleArgsLoop(args, 1, <<>>)
                   ELSE FlatArgsLoop(args, 1, <<>>, <<>>, 0))

\* a slip: a segment that has a separator but neither a type nor a patch is let through
SegmentCheckWithoutLoneSeparator(pre) ==
    IF ~IsTuple(pre) THEN "TypeError"
    ELSE IF Len(ValOf(pre)) # 3 THEN "ValueError"
    ELSE IF ~IsNone(ValOf(pre)[1]) /\ ~IsStr(ValOf(pre)[1]) THEN "TypeError"
    ELSE IF ~IsNone(ValOf(pre)[1]) /\ ~IsSepStr(ValOf(pre)[1]) THEN "ValueError"
    ELSE IF ~IsNone(ValOf(pre)[2]) /\ ~IsStr(ValOf(pre)[2]) THEN "TypeError"
    ELSE IF ~IsNone(ValOf(pre)[3]) /\ ~IsInt(ValOf(pre)[3]) THEN "TypeError"
    ELSE IF ~IsNone(ValOf(pre)[3]) /\ ValOf(ValOf(pre)[3]) < 0 THEN "ValueError"
    ELSE IF IsNone(ValOf(pre)[1]) /\ IsNone(ValOf(pre)[2]) /\ ~IsNone(ValOf(pre)[3])
    THEN "ValueError"
    ELSE "none"

\* the checks of one pre-release segment, in the order of the code
SegmentCheck(pre) ==
    IF ~IsTuple(pre) THEN "TypeError"
    ELSE IF Len(ValOf(pre)) # 3 THEN "ValueError"
    ELSE LET pre_separator == ValOf(pre)[1]
             pre_type == ValOf(pre)[2]
             pre_patch == ValOf(pre)[3]
         IN  IF ~IsNone(pre_separator) /\ ~IsStr(pre_separator) THEN "TypeError"
             ELSE IF ~IsNone(pre_separator) /\ ~IsSepStr(pre_separator) THEN "ValueError"
             ELSE IF ~IsNone(pre_type) /\ ~IsStr(pre_type) THEN "TypeError"
             ELSE IF ~IsNone(pre_patch) /\ ~IsInt(pre_patch) THEN "TypeError"
             ELSE IF ~IsNone(pre_patch) /\ ValOf(pre_patch) < 0 THEN "ValueError"
             ELSE IF IsNone(pre_separator) /\ IsNone(pre_type) /\ ~IsNone(pre_patch)
                  THEN "ValueError"
             ELSE IF ~IsNone(pre_separator) /\ IsNone(pre_type) /\ IsNone(pre_patch)
                  THEN "ValueError"
             ELSE "none"

\* the exception of the first of two steps that raises
FirstRaised(e, rest) == IF e # "none" THEN e ELSE rest

RECURSIVE SegmentsCheck(_)
SegmentsCheck(xs) ==
    IF xs = <<>> THEN "none"
    ELSE FirstRaised(SegmentCheck(Head(xs)), SegmentsCheck(Tail(xs)))

PreReleaseCheck(pre_release) ==
    IF IsNone(pre_release) THEN "none"
    ELSE IF ~IsList(pre_release) THEN "TypeError"
    ELSE IF Len(ValOf(pre_release)) = 0 THEN "ValueError"
    ELSE SegmentsCheck(ValOf(pre_release))

\* the checks of the local parts, in the order of the code
RECURSIVE LocalPartsCheck(_, _)
LocalPartsCheck(local, i) ==
    IF i > Len(local) THEN "none"
    ELSE IF ~IsStr(local[i]) THEN "TypeError"
    ELSE IF (i - 1) % 2 = 1 /\ ~IsSepStr(local[i]) THEN "ValueError"
    ELSE LocalPartsCheck(local, i + 1)

\* local as the code normalises it: the remaining args when local is None, a 1-tuple
\* for a str
LocalOf(args, local) ==
    IF IsNone(local)
    THEN IF Len(args) = 1 /\ IsTuple(args[1]) THEN args[1] ELSE PyTuple(args)
    ELSE IF IsStr(local) THEN PyTuple(<<local>>)
    ELSE local

\* a step that raises e, or goes on to the result r when e is "none"
RaiseOr(e, r) == IF e # "none" THEN Raise(e) ELSE r

\* the checks of the local parts; then the attributes are set
InitLocal(major, minor, patch, pre_release, local) ==
    IF ~IsTuple(local) THEN Raise("TypeError")
    ELSE RaiseOr(LocalPartsCheck(ValOf(local), 1),
                 Ok([_major |-> major, _minor |-> minor, _patch |-> patch,
                     _pre_release |-> pre_release, _local |-> local]))

\* a slip: args that are left over next to a given local are ignored
InitPreReleaseIgnoringArgs(major, minor, patch, d, local) ==
    IF d.exc # "none" THEN Raise(d.exc)
    ELSE RaiseOr(PreReleaseCheck(d.pre_release),
                 InitLocal(major, minor, patch, d.pre_release, LocalOf(d.args, local)))

\* the checks of the pre-release d.pre_release, decoded from args or given; then local
InitPreRelease(major, minor, patch, d, local) ==
    IF d.exc # "none" THEN Raise(d.exc)
    ELSE RaiseOr(PreReleaseCheck(d.pre_release),
                 IF d.args # <<>> /\ ~IsNone(local) THEN Raise("ValueError")
                 ELSE InitLocal(major, minor, patch, d.pre_release, LocalOf(d.args, local)))

\* Version(major, minor, patch, *args, pre_release=..., local=...)
__init__(major, minor, patch, args, pre_release, local) ==
    RaiseOr(ReleaseCheck(major, minor, patch),
            IF args # <<>> /\ ~IsNone(pre_release) /\ ~IsNone(local) THEN Raise("ValueError")
            ELSE InitPreRelease(major, minor, patch,
                                IF IsNone(pre_release) THEN DecodeArgs(args)
                                ELSE [exc |-> "none", pre_release |-> pre_release,
                                      args |-> args],
                                local))

\* Version.from_str.  pkg_resources.parse_version and semver.parse are called for
\* logging only (a ValueError of semver is caught).
\* cls(major=..., minor=..., patch=..., pre_release=..., local=...) of the parsed groups
FromParsed(rel, pre, loc) ==
    IF rel.exc # "none" THEN Raise(rel.exc)
    ELSE IF pre.exc # "none" THEN Raise(pre.exc)
    ELSE IF loc.exc # "none" THEN Raise(loc.exc)
    ELSE __init__(rel.val[1], rel.val[2], rel.val[3], <<>>, pre.val, loc.val)

\* the ValueError when there is no match, else the groups are parsed
FromMatch(match) ==
    IF ~match.matched THEN Raise("ValueError")
    ELSE FromParsed(_parse_release_str(ValOf(match.release)),
                    IF IsNone(match.prerelease) THEN Ok(PyNone)
                    ELSE _parse_pre_release_str(ValOf(match.prerelease)),
                    IF IsNone(match.local) THEN Ok(PyNone)
                    ELSE _parse_local_str(ValOf(match.local)))

from_str(version_str) == FromMatch(MatchVersion(version_str))

-----------------------------------------------------------------------------
(* to_str *)

\* _version_tuple_checker: each value is present exactly where its flag is set
_version_tuple_checker(version_tuple, flags) ==
    \A i \in 1..(IF Len(version_tuple) < Len(flags) THEN Len(version_tuple) ELSE Len(flags)) :
        IF flags[i] THEN ~IsNone(version_tuple[i]) ELSE IsNone(version_tuple[i])

\* str(x), '{}'.format(x)
Format(x) == IF IsInt(x) THEN IntToStr(ValOf(x)) ELSE ValOf(x)

\* a slip: the patch is left out of the string
ToStrReleaseWithoutPatch(self) ==
    IF IsNone(self._minor) THEN Ok(Format(self._major))
    ELSE Ok(Format(self._major) \o <<".">> \o Format(self._minor))

_to_str_release(self) ==
    LET version_tuple == <<self._major, self._minor, self._patch>>
    IN  IF _version_tuple_checker(version_tuple, <<TRUE, FALSE, FALSE>>)
        THEN Ok(Format(self._major))
        ELSE IF _version_tuple_checker(version_tuple, <<TRUE, TRUE, FALSE>>)
        THEN Ok(Format(self._major) \o <<".">> \o Format(self._minor))
        ELSE IF _version_tuple_checker(version_tuple, <<TRUE, TRUE, TRUE>>)
        THEN Ok(Format(self._major) \o <<".">> \o Format(self._minor) \o <<".">>
                \o Format(self._patch))
        ELSE Raise("ValueError")

\* a slip: the number of a segment that has a type is left out of the string
ToStrSegmentWithoutPatch(version_tuple) ==
    IF _version_tuple_checker(version_tuple, <<FALSE, FALSE, FALSE>>)
    THEN Ok(<<>>)
    ELSE IF _version_tuple_checker(version_tuple, <<TRUE, TRUE>>)
    THEN Ok(Format(version_tuple[1]) \o Format(version_tuple[2]))
    ELSE IF _version_tuple_checker(version_tuple, <<TRUE, FALSE, TRUE>>)
    THEN Ok(Format(version_tuple[1]) \o Format(version_tuple[3]))
    ELSE Raise("ValueError")

_to_str_pre_release_segment(version_tuple) ==
    IF _version_tuple_checker(version_tuple, <<FALSE, FALSE, FALSE>>)
    THEN Ok(<<>>)
    ELSE IF _version_tuple_checker(version_tuple, <<TRUE, TRUE, FALSE>>)
    THEN Ok(Format(version_tuple[1]) \o Format(version_tuple[2]))
    ELSE IF _version_tuple_checker(version_tuple, <<TRUE, FALSE, TRUE>>)
    THEN Ok(Format(version_tuple[1]) \o Format(version_tuple[3]))
    ELSE IF _version_tuple_checker(version_tuple, <<TRUE, TRUE, TRUE>>)
    THEN Ok(Format(version_tuple[1]) \o Format(version_tuple[2]) \o Format(version_tuple[3]))
    ELSE Raise("ValueError")

\* the string h before the string r; the first exception
Joined(h, r) ==
    IF h.exc # "none" THEN h
    ELSE IF r.exc # "none" THEN r
    ELSE Ok(h.val \o r.val)

\* ''.join of the segments' strings
RECURSIVE JoinSegments(_)
JoinSegments(segs) ==
    IF segs = <<>> THEN Ok(<<>>)
    ELSE Joined(_to_str_pre_release_segment(ValOf(Head(segs))), JoinSegments(Tail(segs)))

_to_str_pre_release(self) ==
    IF IsNone(self._pre_release) THEN Ok(<<>>)
    ELSE JoinSegments(ValOf(self._pre_release))

\* "not self._local" holds for None and for the empty tuple
_to_str_local(self) ==
    IF IsNone(self._local) \/ ValOf(self._local) = <<>> THEN <<>>
    ELSE <<"+">> \o Concat([i \in DOMAIN ValOf(self._local) |-> ValOf(ValOf(self._local)[i])])

to_str(self) ==
    Joined(Joined(_to_str_release(self), _to_str_pre_release(self)), Ok(_to_str_local(self)))

-----------------------------------------------------------------------------
(* Tuple projections *)

OrDefault(x, sort) == IF IsNone(x) THEN (IF sort THEN PyInt(0) ELSE PyNone) ELSE x

release_to_tuple(self, sort) ==
    <<OrDefault(self._major, sort), OrDefault(self._minor, sort), OrDefault(self._patch, sort)>>

\* a slip: the flag of a segment without a type and of one with a type swapped
SegmentTupleFlagSwapped(seg, sort) ==
    <<IF sort THEN (IF IsNone(seg[2]) THEN PyInt(0) ELSE PyInt(1)) ELSE seg[1],
      IF sort THEN (IF IsNone(seg[2]) THEN PyStr(<<>>) ELSE PyStr(Lower(ValOf(seg[2]))))
      ELSE seg[2],
      OrDefault(seg[3], sort)>>

\* a slip: the type of a segment is not lowercased for sorting
SegmentTupleTypeNotLowered(seg, sort) ==
    <<IF sort THEN (IF IsNone(seg[2]) THEN PyInt(1) ELSE PyInt(0)) ELSE seg[1],
      IF sort THEN (IF IsNone(seg[2]) THEN PyStr(<<>>) ELSE seg[2]) ELSE seg[2],
      OrDefault(seg[3], sort)>>

pre_release_segment_to_tuple(seg, sort) ==
    LET pre_separator == seg[1]
        pre_type == seg[2]
        pre_patch == seg[3]
    IN  <<IF sort THEN (IF IsNone(pre_type) THEN PyInt(1) ELSE PyInt(0)) ELSE pre_separator,
          IF sort THEN (IF IsNone(pre_type) THEN PyStr(<<>>) ELSE PyStr(Lower(ValOf(pre_type))))
          ELSE pre_type,
          OrDefault(pre_patch, sort)>>

\* the fill value of the comparison and the projection of an absent pre-release
Sentinel == PyTuple(<<PyInt(1), PyStr(<<>>), PyInt(0)>>)

pre_release_to_tuple(self, sort) ==
    IF IsNone(self._pre_release) THEN (IF sort THEN <<Sentinel>> ELSE <<>>)
    ELSE LET segs == ValOf(self._pre_release)
             parts == [i \in DOMAIN segs |-> pre_release_segment_to_tuple(ValOf(segs[i]), sort)]
         IN  IF sort THEN [i \in DOMAIN parts |-> PyTuple(parts[i])] ELSE Concat(parts)

\* a slip: the separators of the local part are kept as they are for sorting
LocalTupleSeparatorsKept(self, sort) ==
    LET local == IF IsNone(self._local) THEN <<>> ELSE ValOf(self._local)
    IN  IF sort THEN [i \in DOMAIN local |-> PyStr(Lower(ValOf(local[i])))] ELSE local

local_to_tuple(self, sort) ==
    LET local == IF IsNone(self._local) THEN <<>> ELSE ValOf(self._local)
    IN  IF sort
        THEN [i \in DOMAIN local |->
                 IF IsSepStr(local[i]) THEN PyInt(0) ELSE PyStr(Lower(ValOf(local[i])))]
        ELSE local

to_tuple(self, sort) ==
    release_to_tuple(self, sort) \o pre_release_to_tuple(self, sort) \o local_to_tuple(self, sort)

-----------------------------------------------------------------------------
(* Ordering *)

RetBool(x) == [exc |-> "none", val |-> x]
RaiseBool(e) == [exc |-> e, val |-> FALSE]

\* the first index at which two sequences of equal length differ, 0 if none
FirstDiff(xs, ys) ==
    LET d == {k \in 1..Len(xs) : ~PyEq(xs[k], ys[k])}
    IN  IF d = {} THEN 0 ELSE CHOOSE k \in d : \A h \in d : k <= h

Shortest(xs, ys) == IF Len(xs) < Len(ys) THEN Len(xs) ELSE Len(ys)

\* x < y of Python for ints, strs and tuples of them; int against str is a TypeError
RECURSIVE PyLess(_, _)
PyLess(x, y) ==
    IF IsInt(x) /\ IsInt(y) THEN RetBool(ValOf(x) < ValOf(y))
    ELSE IF IsStr(x) /\ IsStr(y) THEN RetBool(StrLess(ValOf(x), ValOf(y)))
    ELSE IF IsTuple(x) /\ IsTuple(y)
    THEN LET n == Shortest(ValOf(x), ValOf(y))
             k == FirstDiff(SubSeq(ValOf(x), 1, n), SubSeq(ValOf(y), 1, n))
         IN  IF k = 0 THEN RetBool(Len(ValOf(x)) < Len(ValOf(y)))
             ELSE PyLess(ValOf(x)[k], ValOf(y)[k])
    ELSE RaiseBool("TypeError")

\* itertools.zip_longest(xs, ys, fillvalue=fill), one side of it
Padded(xs, n, fill) == [i \in 1..n |-> IF i <= Len(xs) THEN xs[i] ELSE fill]

\* the pre-release stage: the first differing pair of zip_longest decides
PreReleaseLess(self_pre_release, other_pre_release) ==
    LET n == IF Len(self_pre_release) > Len(other_pre_release)
             THEN Len(self_pre_release) ELSE Len(other_pre_release)
        xs == Padded(self_pre_release, n, Sentinel)
        ys == Padded(other_pre_release, n, Sentinel)
        k == FirstDiff(xs, ys)
    IN  IF k # 0 THEN PyLess(xs[k], ys[k]) ELSE RaiseBool("NotImplementedError")

\* the local stage: the first differing pair of zip decides, then the lengths
LocalLess(self_local, other_local) ==
    LET n == Shortest(self_local, other_local)
        k == FirstDiff(SubSeq(self_local, 1, n), SubSeq(other_local, 1, n))
    IN  IF k # 0 THEN PyLess(self_local[k], other_local[k])
        ELSE IF Len(self_local) # Len(other_local)
        THEN RetBool(Len(self_local) < Len(other_local))
        ELSE RaiseBool("NotImplementedError")

\* a slip: the release stage returns only when self's release is the smaller one
LtReleaseFallsThrough(self_release, other_release, self_pre_release, other_pre_release, self_local, other_local) ==
    IF PyLess(PyTuple(self_release), PyTuple(other_release)).val
    THEN RetBool(TRUE)
    ELSE IF self_pre_release # other_pre_release
    THEN PreReleaseLess(self_pre_release, other_pre_release)
    ELSE IF self_local # other_local
    THEN LocalLess(self_local, other_local)
    ELSE RetBool(FALSE)

\* the three stages of __lt__ on the sort tuples of self and other
LtStages(self_release, other_release, self_pre_release, other_pre_release, self_local, other_local) ==
    IF self_release # other_release
    THEN PyLess(PyTuple(self_release), PyTuple(other_release))
    ELSE IF self_pre_release # other_pre_release
    THEN PreReleaseLess(self_pre_release, other_pre_release)
    ELSE IF self_local # other_local
    THEN LocalLess(self_local, other_local)
    ELSE RetBool(FALSE)

__lt__(self, other) ==
    LtStages(release_to_tuple(self, TRUE), release_to_tuple(other, TRUE),
             pre_release_to_tuple(self, TRUE), pre_release_to_tuple(other, TRUE),
             local_to_tuple(self, TRUE), local_to_tuple(other, TRUE))

\* the result of "not self < other and not other < self" from the two comparisons
EqOf(x, y) ==
    IF x.exc # "none" THEN x
    ELSE IF x.val THEN RetBool(FALSE)
    ELSE IF y.exc # "none" THEN y
    ELSE RetBool(~y.val)

\* not self < other and not other < self
__eq__(self, other) == EqOf(__lt__(self, other), __lt__(other, self))

-----------------------------------------------------------------------------
(* The other constructors *)

\* the keyword parameters of __init__
KeywordNames == {"major", "minor", "patch", "pre_release", "local"}

Get(d, k) == IF k \in DOMAIN d THEN d[k] ELSE PyNone

\* vars(self): the instance attributes under their own names
to_dict(self) == self

\* cls(**version_dict): a key that is no parameter, or no major, is a TypeError
from_dict(version_dict) ==
    IF ~(DOMAIN version_dict \subseteq KeywordNames) \/ "major" \notin DOMAIN version_dict
    THEN Raise("TypeError")
    ELSE __init__(version_dict["major"], Get(version_dict, "minor"), Get(version_dict, "patch"),
                  <<>>, Get(version_dict, "pre_release"), Get(version_dict, "local"))

from_version(version) == from_dict(to_dict(version))

\* cls(*version_tuple)
from_tuple(version_tuple) ==
    LET n == Len(version_tuple)
    IN  IF n = 0 THEN Raise("TypeError")
        ELSE __init__(version_tuple[1],
                      IF n >= 2 THEN version_tuple[2] ELSE PyNone,
                      IF n >= 3 THEN version_tuple[3] ELSE PyNone,
                      SubSeq(version_tuple, 4, n), PyNone, PyNone)

\* Version.from_py_version.  The foreign value is packaging's Version: its _version has
\* the release numbers, the markers pre, dev and post, each None or (letters, number),
\* and local, None or a tuple of strs and ints.

\* ver.release[i] if len(ver.release) > i else None
ReleaseAt(release, i) == IF Len(release) >= i THEN release[i] ELSE PyNone

\* pre_ver: (None, ver.release[3]) of a release of four numbers, replaced by ver.dev or
\* else ver.pre when one of them is set
PreVer(ver) ==
    IF ~IsNone(ver.dev) THEN ver.dev
    ELSE IF ~IsNone(ver.pre) THEN ver.pre
    ELSE IF Len(ver.release) = 4 THEN PyTuple(<<PyNone, ver.release[4]>>)
    ELSE PyNone

\* [('.',) + tuple(pre_ver[i] if len(pre_ver) > i else None for i in range(2))]
PreReleaseOfPreVer(pre_ver) ==
    IF IsNone(pre_ver) THEN PyNone
    ELSE PyList(<<PyTuple(<<Dot, ReleaseAt(ValOf(pre_ver), 1), ReleaseAt(ValOf(pre_ver), 2)>>)>>)

\* the str() of the local segments with a '.' between them
LocalOfSegments(local) ==
    IF IsNone(local) \/ ValOf(local) = <<>> THEN PyNone
    ELSE PyTuple([i \in 1..(2 * Len(ValOf(local)) - 1) |->
                     IF i % 2 = 1 THEN PyStr(Format(ValOf(local)[(i + 1) \div 2])) ELSE Dot])

\* sum(1 for _ in (ver.post, ver.dev, ver.pre) if _)
PreVerPresent(ver) == Cardinality({k \in {"post", "dev", "pre"} : ~IsNone(ver[k])})

from_py_version(py_version) ==
    IF ~py_version.is_version THEN Raise("NotImplementedError")
    ELSE IF Len(py_version.release) > 4 THEN Raise("NotImplementedError")
    ELSE IF Len(py_version.release) = 4 /\ PreVerPresent(py_version) > 0
    THEN Raise("NotImplementedError")
    ELSE IF PreVerPresent(py_version) > 1 THEN Raise("NotImplementedError")
    ELSE __init__(ReleaseAt(py_version.release, 1), ReleaseAt(py_version.release, 2),
                  ReleaseAt(py_version.release, 3), <<>>,
                  PreReleaseOfPreVer(PreVer(py_version)), LocalOfSegments(py_version.local))

-----------------------------------------------------------------------------
(* increment.  version.py declares VersionComponent and the tests call      *)
(* Version.increment, but the method itself is not part of version.py; its  *)
(* transitions are those of the documented increment state machine.         *)

Dev == PyStr(<<"d", "e", "v">>)

Plus(x, amount) == IF IsNone(x) THEN PyInt(amount) ELSE PyInt(ValOf(x) + amount)
ZeroIfSet(x) == IF IsNone(x) THEN PyNone ELSE PyInt(0)

\* the DevPatch transition on the pre-release: a new ('.', 'dev', amount) segment unless
\* the last segment is a dev segment, whose patch then grows by amount
IncrementDevPatch(pre_release, amount) ==
    LET segs == IF IsNone(pre_release) THEN <<>> ELSE ValOf(pre_release)
        last == ValOf(segs[Len(segs)])
    IN  IF segs = <<>> \/ ~PyEq(last[2], Dev)
        THEN PyList(Append(segs, PyTuple(<<Dot, Dev, PyInt(amount)>>)))
        ELSE PyList([segs EXCEPT ![Len(segs)] = PyTuple(<<last[1], last[2], Plus(last[3], amount)>>)])

\* self.increment(component, amount): the Version after the transition
increment(self, component, amount) ==
    IF component = "Major"
    THEN Ok([_major |-> Plus(self._major, amount), _minor |-> ZeroIfSet(self._minor),
             _patch |-> ZeroIfSet(self._patch), _pre_release |-> PyNone, _local |-> PyNone])
    ELSE IF component = "Minor"
    THEN Ok([_major |-> self._major, _minor |-> Plus(self._minor, amount),
             _patch |-> ZeroIfSet(self._patch), _pre_release |-> PyNone, _local |-> PyNone])
    ELSE IF component = "Patch"
    THEN Ok([_major |-> self._major, _minor |-> self._minor,
             _patch |-> Plus(self._patch, amount), _pre_release |-> PyNone, _local |-> PyNone])
    ELSE IF component = "DevPatch"
    THEN Ok([self EXCEPT !._pre_release = IncrementDevPatch(self._pre_release, amount)])
    ELSE Raise("ValueError")

-----------------------------------------------------------------------------
(* Bounds and input sets *)

\* the numbers of a release and of a pre-release segment are 0..MaxNum
MaxNum == 1

Nums == 0..MaxNum
OptNums == {PyNone} \cup {PyInt(n) : n \in Nums}

\* the Versions a set of constructor calls produces
Constructed(calls) ==
    {r.val : r \in {q \in {__init__(x[1], x[2], x[3], <<>>, x[4], x[5]) : x \in calls} :
                       q.exc = "none"}}

\* the pre-releases and locals of the Versions that are compared
OrderPreReleases ==
    {PyNone,
     PyList(<<PyTuple(<<Dot, PyStr(<<"a">>), PyNone>>)>>),
     PyList(<<PyTuple(<<Dot, PyNone, PyInt(0)>>)>>),
     PyList(<<PyTuple(<<Dash, PyNone, PyInt(1)>>)>>),
     PyList(<<PyTuple(<<Dot, PyStr(<<"a">>), PyNone>>), PyTuple(<<Dot, PyNone, PyInt(0)>>)>>)}

OrderLocals == {PyNone, PyStr(<<"a">>), PyTuple(<<Dot>>)}

OrderVersions ==
    Constructed({PyInt(1)} \X OptNums \X {PyNone} \X OrderPreReleases \X OrderLocals)

\* a pre-release has at most MaxSegments segments
MaxSegments == 2

\* a version string has at most MaxLen characters
MaxLen == 4

SeqsUpTo(S, n) == UNION {[1..k -> S] : k \in 0..n}

\* the segments a constructor call is made with: valid and invalid combinations
BuildSegments ==
    {PyTuple(<<s, ty, n>>) : s \in {PyNone, Dot, Dash}, ty \in {PyNone, PyStr(<<"a">>)},
                             n \in {PyNone, PyInt(0), PyInt(1)}}

BuildPreReleases == {PyNone} \cup {PyList(xs) : xs \in SeqsUpTo(BuildSegments, MaxSegments)}

BuildLocals ==
    {PyNone, PyStr(<<"a">>), PyTuple(<<PyStr(<<"a">>), Dot, PyStr(<<"B", "1">>)>>), PyTuple(<<Dot>>)}

Call(major, minor, patch, args, pre_release, local) ==
    [major |-> major, minor |-> minor, patch |-> patch, args |-> args,
     pre_release |-> pre_release, local |-> local]

\* the constructor calls: every release with no pre-release and no local, and every
\* pre-release and local with two releases
BuildCalls ==
    {Call(x[1], x[2], x[3], <<>>, PyNone, PyNone) :
        x \in ({PyInt(0 - 1)} \cup {PyInt(n) : n \in Nums})
              \X ({PyInt(0 - 1)} \cup OptNums) \X ({PyInt(0 - 1)} \cup OptNums)}
    \cup
    {Call(PyInt(1), x[1], x[1], <<>>, x[2], x[3]) :
        x \in {PyNone, PyInt(0)} \X BuildPreReleases \X BuildLocals}

\* the characters of the version strings that are parsed
Alphabet == {"0", "1", "a", "B", ".", "-", "+", " "}

Strings == SeqsUpTo(Alphabet, MaxLen)

\* an increment is by 1..MaxAmount, and numbers are incremented up to MaxValue
MaxAmount == 2
MaxValue == 3

\* the constructor calls of the life cycle: every release, valid or not, and two calls
\* with a pre-release and a local
LifeCalls ==
    {Call(x[1], x[2], x[3], <<>>, PyNone, PyNone) :
        x \in ({PyInt(0 - 1), PyNone} \cup {PyInt(n) : n \in Nums})
              \X ({PyInt(0 - 1), Dot} \cup OptNums) \X ({PyInt(0 - 1)} \cup OptNums)}
    \cup
    {Call(PyInt(1), PyInt(0), PyNone, <<>>, PyList(<<PyTuple(<<Dot, Dev, PyNone>>)>>), PyNone),
     Call(PyInt(1), PyNone, PyNone, <<>>, PyList(<<PyTuple(<<PyNone, PyStr(<<"r", "c">>), PyInt(1)>>)>>),
          PyStr(<<"a">>))}

LifeStrings ==
    {<<"1">>, <<"1", ".", "2">>, <<"1", ".", "2", ".", "3">>, <<"1", ".", "0", ".", "0">>,
     <<"1", ".", "0", ".", "0", ".", "d", "e", "v", "1">>, <<"0", ".", "1", "-", "r", "c", "+", "a">>,
     <<"1", ".", "0", "1">>, <<"h", "e", "l", "l", "o", " ", "w", "o", "r", "l", "d">>}

LifeTuples ==
    {<<PyInt(1)>>, <<PyInt(1), PyInt(2), PyInt(0)>>, <<PyInt(1), PyNone, PyInt(2)>>,
     <<PyInt(0), PyInt(1), PyInt(0), Dot, Dev, PyInt(1)>>, <<PyInt(0 - 1), PyInt(0)>>,
     <<PyInt(1), PyInt(0), PyNone, PyStr(<<"a">>)>>}

LifeDicts ==
    {[major |-> PyInt(1)], [major |-> PyInt(1), minor |-> PyInt(2), patch |-> PyInt(0)],
     [major |-> PyInt(1), patch |-> PyInt(2)], [minor |-> PyInt(1)],
     [major |-> PyInt(0), minor |-> PyInt(0 - 1)],
     [major |-> PyInt(1), local |-> PyStr(<<"a">>)]}

Components == {"Major", "Minor", "Patch", "DevPatch", "Release"}

-----------------------------------------------------------------------------
(* The ordering of three Versions *)

InitOrder ==
    /\ pc = "constructed"
    /\ a \in OrderVersions
    /\ b \in OrderVersions
    /\ c \in OrderVersions
    /\ text = <<>>
    /\ call = <<>>
    /\ err = "none"
    /\ out = <<>>

\* a < a, a < b, b < a, b < c, a < c and a == b, b == c, a == c are evaluated
Compare ==
    /\ pc = "constructed"
    /\ pc' = "compared"
    /\ out' = [aa |-> __lt__(a, a), ab |-> __lt__(a, b), ba |-> __lt__(b, a),
               bc |-> __lt__(b, c), ac |-> __lt__(a, c),
               eab |-> __eq__(a, b), ebc |-> __eq__(b, c), eac |-> __eq__(a, c)]
    /\ UNCHANGED <<text, call, a, b, c, err>>

NextOrder == Compare

SpecOrder == InitOrder /\ [][NextOrder]_vars

Returns(r, x) == r.exc = "none" /\ r.val = x

\* C1: once a, b are compared, a < b, b < a and a == b each returned a boolean and
\* exactly one of the three is true.
C1_Totality ==
    pc = "compared" =>
        /\ out.ab.exc = "none" /\ out.ba.exc = "none" /\ out.eab.exc = "none"
        /\ Cardinality({x \in {"ab", "ba", "eab"} : out[x].val}) = 1

\* C5: a < a is false; a < b implies that b < a is false; a < b and b < c imply a < c;
\* a == b and b == c imply a == c.
C5_StrictWeakOrder ==
    pc = "compared" =>
        /\ Returns(out.aa, FALSE)
        /\ Returns(out.ab, TRUE) => Returns(out.ba, FALSE)
        /\ Returns(out.ab, TRUE) /\ Returns(out.bc, TRUE) => Returns(out.ac, TRUE)
        /\ Returns(out.eab, TRUE) /\ Returns(out.ebc, TRUE) => Returns(out.eac, TRUE)

\* three Versions in a chain a < b < c, and three pairwise equal but distinct ones
C5_Witness ==
    /\ pc = "compared"
    /\ Returns(out.ab, TRUE) /\ Returns(out.bc, TRUE)
    /\ ~IsNone(a._pre_release) /\ IsNone(c._pre_release)

SameReleaseAndLocal(x, y) ==
    /\ x._major = y._major /\ x._minor = y._minor /\ x._patch = y._patch
    /\ x._local = y._local

FirstSegmentHasType(x) == ~IsNone(ValOf(ValOf(x._pre_release)[1])[2])

\* C4 as stated: a Version with any pre-release is less than the Version of the same
\* release and local without one, and that one is not less than it.
C4_AnyPreReleaseSortsFirst ==
    (/\ pc = "compared"
     /\ SameReleaseAndLocal(a, b)
     /\ ~IsNone(a._pre_release)
     /\ IsNone(b._pre_release))
    => Returns(out.ab, TRUE) /\ Returns(out.ba, FALSE)

\* C4 amended: a Version whose pre-release starts with a segment that has a type is
\* less than the Version of the same release and local without a pre-release, and
\* that one is not less than it.
C4_TypedPreReleaseSortsFirst ==
    (/\ pc = "compared"
     /\ SameReleaseAndLocal(a, b)
     /\ ~IsNone(a._pre_release)
     /\ FirstSegmentHasType(a)
     /\ IsNone(b._pre_release))
    => Returns(out.ab, TRUE) /\ Returns(out.ba, FALSE)

C4_Witness ==
    /\ pc = "compared"
    /\ SameReleaseAndLocal(a, b)
    /\ ~IsNone(a._pre_release)
    /\ FirstSegmentHasType(a)
    /\ Len(ValOf(a._pre_release)) = 2
    /\ IsNone(b._pre_release)
    /\ Returns(out.ab, TRUE)

-----------------------------------------------------------------------------
(* Parsing a string and printing the Version *)

InitParse ==
    /\ pc = "start"
    /\ text \in Strings
    /\ call = <<>>
    /\ a = NoVersion /\ b = NoVersion /\ c = NoVersion
    /\ err = "none"
    /\ out = <<>>

\* a = Version.from_str(text)
FromStr ==
    /\ pc = "start"
    /\ \E r \in {from_str(text)} :
          /\ err' = r.exc
          /\ a' = IF r.exc = "none" THEN r.val ELSE NoVersion
    /\ pc' = "parsed"
    /\ UNCHANGED <<text, call, b, c, out>>

\* out = a.to_str()
ToStr ==
    /\ pc \in {"parsed", "constructed"}
    /\ err = "none"
    /\ \E r \in {to_str(a)} :
          /\ err' = r.exc
          /\ out' = IF r.exc = "none" THEN r.val ELSE <<>>
    /\ pc' = "printed"
    /\ UNCHANGED <<text, call, a, b, c>>

NextParse == FromStr \/ ToStr

SpecParse == InitParse /\ [][NextParse]_vars

\* C3: the Version parsed from a string prints as that string.
C3_StringRoundTrip == pc = "printed" => err = "none" /\ out = text

\* the grammar release[pre-release][+local], stated on whole strings
IsNumberStr(s) ==
    /\ Len(s) >= 1
    /\ \A i \in 1..Len(s) : IsDigit(s[i])
    /\ Len(s) > 1 => s[1] # "0"

IsLettersStr(s) == Len(s) >= 1 /\ \A i \in 1..Len(s) : IsLetter(s[i])

IsAlphanumericStr(s) == Len(s) >= 1 /\ \A i \in 1..Len(s) : IsAlphanumeric(s[i])

From(s, i) == SubSeq(s, i, Len(s))

IsReleaseStr(s) ==
    \/ IsNumberStr(s)
    \/ \E i \in 1..Len(s) :
          /\ s[i] = "."
          /\ IsNumberStr(SubSeq(s, 1, i - 1))
          /\ \/ IsNumberStr(From(s, i + 1))
             \/ \E j \in (i + 1)..Len(s) :
                   /\ s[j] = "."
                   /\ IsNumberStr(SubSeq(s, i + 1, j - 1))
                   /\ IsNumberStr(From(s, j + 1))

IsSegmentStr(s) ==
    \/ Len(s) >= 2 /\ IsSep(s[1]) /\ IsNumberStr(Tail(s))
    \/ LET body == IF s # <<>> /\ IsSep(s[1]) THEN Tail(s) ELSE s
       IN  \/ IsLettersStr(body)
           \/ \E k \in 1..Len(body) :
                 IsLettersStr(SubSeq(body, 1, k)) /\ IsNumberStr(From(body, k + 1))

RECURSIVE IsPreReleaseStr(_)
IsPreReleaseStr(s) ==
    \E k \in 1..Len(s) :
        /\ IsSegmentStr(SubSeq(s, 1, k))
        /\ k = Len(s) \/ IsPreReleaseStr(From(s, k + 1))

RECURSIVE IsLocalBody(_)
IsLocalBody(s) ==
    \/ IsAlphanumericStr(s)
    \/ \E k \in 1..Len(s) :
          IsAlphanumericStr(SubSeq(s, 1, k - 1)) /\ IsSep(s[k]) /\ IsLocalBody(From(s, k + 1))

IsLocalStr(s) == Len(s) >= 2 /\ s[1] = "+" /\ IsLocalBody(Tail(s))

InGrammar(s) ==
    \E i \in 1..Len(s) : \E j \in i..Len(s) :
        /\ IsReleaseStr(SubSeq(s, 1, i))
        /\ j = i \/ IsPreReleaseStr(SubSeq(s, i + 1, j))
        /\ j = Len(s) \/ IsLocalStr(From(s, j + 1))

\* C6: from_str returns a Version for a string that matches the grammar as a whole and
\* raises ValueError, returning nothing, for every other string.
C6_FullMatchOnly ==
    pc = "parsed" =>
        IF InGrammar(text) THEN err = "none" /\ IsInt(a._major)
        ELSE err = "ValueError" /\ a = NoVersion

\* a valid version followed by other characters is rejected
C6_Witness ==
    /\ pc = "parsed"
    /\ err = "ValueError"
    /\ \E k \in 1..(Len(text) - 1) : InGrammar(SubSeq(text, 1, k))
    /\ \E k \in 1..Len(text) : text[k] = "+"

-----------------------------------------------------------------------------
(* Constructing a Version, printing it and parsing it back; cloning it *)

InitBuild ==
    /\ pc = "start"
    /\ call \in BuildCalls
    /\ text = <<>>
    /\ a = NoVersion /\ b = NoVersion /\ c = NoVersion
    /\ err = "none"
    /\ out = <<>>

\* a = Version(major, minor, patch, *args, pre_release=..., local=...)
Construct ==
    /\ pc = "start"
    /\ \E r \in {__init__(call.major, call.minor, call.patch, call.args, call.pre_release,
                           call.local)} :
          /\ err' = r.exc
          /\ a' = IF r.exc = "none" THEN r.val ELSE NoVersion
    /\ pc' = "constructed"
    /\ UNCHANGED <<text, call, b, c, out>>

\* b = Version.from_str(out), out being a.to_str()
Reparse ==
    /\ pc = "printed"
    /\ err = "none"
    /\ \E r \in {from_str(out)} :
          /\ err' = r.exc
          /\ b' = IF r.exc = "none" THEN r.val ELSE NoVersion
    /\ pc' = "reparsed"
    /\ UNCHANGED <<text, call, a, c, out>>

\* c = Version.from_version(a), that is from_dict(a.to_dict())
Clone ==
    /\ pc = "constructed"
    /\ err = "none"
    /\ \E r \in {from_version(a)} :
          /\ err' = r.exc
          /\ c' = IF r.exc = "none" THEN r.val ELSE NoVersion
    /\ pc' = "cloned"
    /\ UNCHANGED <<text, call, a, b, out>>

\* b = Version(major, minor, patch, local=...) with the release and the local of a and
\* no pre-release; a < b and b < a are evaluated
CompareWithRelease ==
    /\ pc = "constructed"
    /\ err = "none"
    /\ \E r \in {__init__(a._major, a._minor, a._patch, <<>>, PyNone, a._local)} :
          /\ r.exc = "none"
          /\ b' = r.val
          /\ out' = [ab |-> __lt__(a, r.val), ba |-> __lt__(r.val, a)]
    /\ pc' = "compared"
    /\ UNCHANGED <<text, call, a, c, err>>

NextBuild == Construct \/ ToStr \/ Reparse \/ Clone \/ CompareWithRelease

SpecBuild == InitBuild /\ [][NextBuild]_vars

\* C2: a constructed Version prints, and the string parses back to an equal Version.
C2_ValueRoundTrip ==
    /\ pc = "printed" => err = "none"
    /\ pc = "reparsed" => err = "none" /\ Returns(__eq__(b, a), TRUE)

\* C7: from_dict(v.to_dict()) returns a Version equal to v.
C7_DictRoundTrip == pc = "cloned" => err = "none" /\ Returns(__eq__(c, a), TRUE)

-----------------------------------------------------------------------------
(* The life of one Version: made by the constructor or a factory, then incremented *)

Op(name, component, amount) == [op |-> name, component |-> component, amount |-> amount]

Init ==
    /\ pc = "start"
    /\ text = <<>>
    /\ call = Call(PyNone, PyNone, PyNone, <<>>, PyNone, PyNone)
    /\ a = NoVersion /\ b = NoVersion /\ c = NoVersion
    /\ err = "none"
    /\ out = Op("", "", 0)

\* the result r of a constructor or factory: the Version, or the exception and no Version
Made(r, name) ==
    /\ err' = r.exc
    /\ a' = IF r.exc = "none" THEN r.val ELSE NoVersion
    /\ pc' = IF r.exc = "none" THEN "live" ELSE "failed"
    /\ out' = Op(name, "", 0)
    /\ UNCHANGED <<b, c>>

\* a = Version(...)
New ==
    /\ pc = "start"
    /\ \E x \in LifeCalls :
          /\ call' = x
          /\ Made(__init__(x.major, x.minor, x.patch, x.args, x.pre_release, x.local), "Version")
    /\ UNCHANGED text

\* a = Version.from_str(text)
Parse ==
    /\ pc = "start"
    /\ \E s \in LifeStrings :
          /\ text' = s
          /\ Made(from_str(s), "from_str")
    /\ UNCHANGED call

\* a = Version.from_tuple(version_tuple)
FromTuple ==
    /\ pc = "start"
    /\ \E x \in LifeTuples : Made(from_tuple(x), "from_tuple")
    /\ UNCHANGED <<text, call>>

\* a = Version.from_dict(version_dict)
FromDict ==
    /\ pc = "start"
    /\ \E d \in LifeDicts \cup {to_dict(from_str(<<"1">>).val)} : Made(from_dict(d), "from_dict")
    /\ UNCHANGED <<text, call>>

\* the largest number in a Version
Biggest(v) ==
    Max({0} \cup {ValOf(x) : x \in {y \in {v._major, v._minor, v._patch} : IsInt(y)}}
        \cup (IF IsNone(v._pre_release) THEN {}
              ELSE {ValOf(ValOf(s)[3]) :
                      s \in {z \in Range(ValOf(v._pre_release)) : IsInt(ValOf(z)[3])}}))

\* a.increment(component, amount); b keeps the Version as it was before
Increment ==
    /\ pc = "live"
    /\ \E component \in Components, amount \in 1..MaxAmount :
          \E r \in {increment(a, component, amount)} :
              /\ r.exc = "none" => Biggest(r.val) <= MaxValue
              /\ err' = r.exc
              /\ a' = IF r.exc = "none" THEN r.val ELSE a
              /\ b' = a
              /\ out' = Op("increment", component, amount)
    /\ UNCHANGED <<pc, text, call, c>>

Next == New \/ Parse \/ FromTuple \/ FromDict \/ Increment

Spec == Init /\ [][Next]_vars

-----------------------------------------------------------------------------
(* The increment transitions *)

\* the last step was a.increment(component, amount) and it returned; b is the Version
\* before it
Incremented(component) ==
    pc = "live" /\ out.op = "increment" /\ out.component = component /\ err = "none"

\* the strings and the Versions of the examples
Str_1_2 == <<"1", ".", "2">>
Str_1_2_1 == <<"1", ".", "2", ".", "1">>
Str_1_2_3 == <<"1", ".", "2", ".", "3">>
Str_1_3_0 == <<"1", ".", "3", ".", "0">>
Str_2_0_0 == <<"2", ".", "0", ".", "0">>
Str_1_0_0 == <<"1", ".", "0", ".", "0">>
Str_1_0_0_dev1 == <<"1", ".", "0", ".", "0", ".", "d", "e", "v", "1">>
Str_1_0_0_dev2 == <<"1", ".", "0", ".", "0", ".", "d", "e", "v", "2">>
Version_1_2 == from_str(Str_1_2).val
Version_1_2_1 == from_str(Str_1_2_1).val
Version_1_2_3 == from_str(Str_1_2_3).val
Version_1_3_0 == from_str(Str_1_3_0).val
Version_2_0_0 == from_str(Str_2_0_0).val
Version_1_0_0_dev1 == from_str(Str_1_0_0_dev1).val
Version_1_0_0_dev2 == from_str(Str_1_0_0_dev2).val

\* what increment makes of a component that is reset: 0 when it was set
ResetOf(x) == IF IsNone(x) THEN PyNone ELSE PyInt(0)

\* what increment makes of the component it adds the amount to
AddedTo(x) == PyInt((IF IsNone(x) THEN 0 ELSE ValOf(x)) + out.amount)

Cleared(v) == pre_release_to_tuple(v, FALSE) = <<>> /\ local_to_tuple(v, FALSE) = <<>>

\* C8: increment(Major, n) adds n to major and resets minor and patch to 0 when they
\* were set; increment(Minor, n) sets or adds to minor and resets patch, major
\* unchanged; increment(Patch, n) sets or adds to patch, major and minor unchanged; each
\* clears pre-release and local.  Major on 1.2.3 yields 2.0.0, Minor on 1.2.3 yields
\* 1.3.0, Patch on 1.2 yields 1.2.1.
C8_IncrementResets ==
    /\ Incremented("Major") =>
          /\ release_to_tuple(a, FALSE)
                = <<AddedTo(b._major), ResetOf(b._minor), ResetOf(b._patch)>>
          /\ Cleared(a)
    /\ Incremented("Minor") =>
          /\ release_to_tuple(a, FALSE) = <<b._major, AddedTo(b._minor), ResetOf(b._patch)>>
          /\ Cleared(a)
    /\ Incremented("Patch") =>
          /\ release_to_tuple(a, FALSE) = <<b._major, b._minor, AddedTo(b._patch)>>
          /\ Cleared(a)
    /\ (Incremented("Major") /\ out.amount = 1 /\ b = Version_1_2_3) =>
          /\ Returns(to_str(a), Str_2_0_0)
          /\ Returns(__eq__(a, Version_2_0_0), TRUE)
    /\ (Incremented("Minor") /\ out.amount = 1 /\ b = Version_1_2_3) =>
          /\ Returns(to_str(a), Str_1_3_0)
          /\ Returns(__eq__(a, Version_1_3_0), TRUE)
    /\ (Incremented("Patch") /\ out.amount = 1 /\ b = Version_1_2) =>
          /\ Returns(to_str(a), Str_1_2_1)
          /\ Returns(__eq__(a, Version_1_2_1), TRUE)

\* Major on 1.2.3 has yielded 2.0.0
C8_Witness ==
    /\ Incremented("Major")
    /\ out.amount = 1
    /\ b = Version_1_2_3
    /\ Returns(to_str(a), Str_2_0_0)

\* C9: increment(DevPatch, n) appends the segment ('.', 'dev', n) when there is no
\* pre-release or the last segment's type is not 'dev', and else adds n to the last
\* segment's patch, an absent patch counting as 0; major, minor, patch and local are
\* unchanged.  DevPatch on 1.0.0 yields 1.0.0.dev1, and DevPatch on that 1.0.0.dev2.
C9_DevPatchChains ==
    /\ Incremented("DevPatch") =>
          /\ release_to_tuple(a, FALSE) = release_to_tuple(b, FALSE)
          /\ a._local = b._local
          /\ LET old == pre_release_to_tuple(b, FALSE)
                 new == pre_release_to_tuple(a, FALSE)
             IN  IF old = <<>> \/ ~PyEq(old[Len(old) - 1], Dev)
                 THEN new = old \o <<Dot, Dev, PyInt(out.amount)>>
                 ELSE new = [old EXCEPT ![Len(old)] = AddedTo(@)]
    /\ (Incremented("DevPatch") /\ out.amount = 1
          /\ Returns(to_str(b), Str_1_0_0)) =>
          /\ Returns(to_str(a), Str_1_0_0_dev1)
          /\ Returns(__eq__(a, Version_1_0_0_dev1), TRUE)
    /\ (Incremented("DevPatch") /\ out.amount = 1
          /\ Returns(to_str(b), Str_1_0_0_dev1)) =>
          /\ Returns(to_str(a), Str_1_0_0_dev2)
          /\ Returns(__eq__(a, Version_1_0_0_dev2), TRUE)

\* DevPatch increments have led from the parsed 1.0.0 over 1.0.0.dev1 to 1.0.0.dev2
C9_Witness ==
    /\ Incremented("DevPatch")
    /\ out.amount = 1
    /\ text = Str_1_0_0
    /\ Returns(to_str(b), Str_1_0_0_dev1)
    /\ Returns(to_str(a), Str_1_0_0_dev2)

\* major is a non-negative int, minor and patch are unset or non-negative ints, and
\* patch is set only if minor is
ReleaseInvariant(major, minor, patch) ==
    /\ IsInt(major) /\ ValOf(major) >= 0
    /\ IsNone(minor) \/ (IsInt(minor) /\ ValOf(minor) >= 0)
    /\ IsNone(patch) \/ (IsInt(patch) /\ ValOf(patch) >= 0)
    /\ ~IsNone(patch) => ~IsNone(minor)

\* C10: every Version that exists, made by the constructor or a factory and after any
\* increments, satisfies the release invariant, and a constructor call that violates
\* it fails and makes no Version.
C10_ReleaseInvariant ==
    /\ pc = "live" => ReleaseInvariant(a._major, a._minor, a._patch)
    /\ (out.op = "Version" /\ ~ReleaseInvariant(call.major, call.minor, call.patch)) =>
          pc = "failed" /\ err # "none" /\ a = NoVersion

-----------------------------------------------------------------------------
(* Constructor calls: the pre-release segments, and trailing positional     *)
(* values next to pre_release= and local=                                   *)

\* the separators, types and patches of the segments of a call, valid and not
CallSeparators == {PyNone, Dot, Dash, PyStr(<<"_">>)}
CallTypes == {PyNone, PyStr(<<"a">>)}
CallPatches == {PyNone, PyInt(0 - 1), PyInt(0)}

\* the segments of a call: the 3-tuples, a 2-tuple, a 4-tuple and a list of 3
CallSegments ==
    {PyTuple(<<s, ty, n>>) : s \in CallSeparators, ty \in CallTypes, n \in CallPatches}
    \cup {PyTuple(<<Dot, PyStr(<<"a">>)>>),
          PyTuple(<<Dot, PyStr(<<"a">>), PyInt(1), PyInt(1)>>),
          PyList(<<Dot, PyStr(<<"a">>), PyInt(1)>>)}

\* the trailing positional values of a call: at most MaxArgs flat values, or at most two
\* tuples
MaxArgs == 3

FlatValues == {PyNone, Dot, PyStr(<<"a">>), PyInt(1)}

ArgTuples ==
    {PyTuple(<<Dot, PyStr(<<"a">>), PyInt(1)>>), PyTuple(<<PyNone, PyStr(<<"a">>), PyNone>>),
     PyTuple(<<Dash, PyNone, PyInt(0)>>), PyTuple(<<PyStr(<<"a">>), Dot, PyStr(<<"B">>)>>),
     PyTuple(<<PyStr(<<"a">>)>>)}

CallArgs == SeqsUpTo(FlatValues, MaxArgs) \cup SeqsUpTo(ArgTuples, 2)

\* the calls with a list of segments, and the calls with trailing positional values
ValidateCalls ==
    {Call(PyInt(1), PyNone, PyNone, <<>>, PyList(x), PyNone) :
        x \in SeqsUpTo(CallSegments, MaxSegments)}
    \cup
    {Call(PyInt(1), PyInt(0), PyNone, x[1], x[2], x[3]) :
        x \in CallArgs
              \X {PyNone, PyList(<<PyTuple(<<Dot, PyStr(<<"a">>), PyInt(1)>>)>>)}
              \X {PyNone, PyStr(<<"a">>), PyTuple(<<PyStr(<<"a">>), Dot, PyStr(<<"B">>)>>)}}

InitCall ==
    /\ pc = "start"
    /\ call \in ValidateCalls
    /\ text = <<>>
    /\ a = NoVersion /\ b = NoVersion /\ c = NoVersion
    /\ err = "none"
    /\ out = <<>>

NextCall == Construct

SpecCall == InitCall /\ [][NextCall]_vars

\* the defects of a segment list that the constructor is to reject
IsBadSeparator(s) == ~IsNone(s) /\ s \notin {Dot, Dash}

HasDefect(seg) ==
    \/ ~IsTuple(seg)
    \/ Len(ValOf(seg)) # 3
    \/ /\ IsTuple(seg) /\ Len(ValOf(seg)) = 3
       /\ \/ IsBadSeparator(ValOf(seg)[1])
          \/ IsInt(ValOf(seg)[3]) /\ ValOf(ValOf(seg)[3]) < 0
          \/ ~IsNone(ValOf(seg)[1]) /\ IsNone(ValOf(seg)[2]) /\ IsNone(ValOf(seg)[3])
          \/ ~IsNone(ValOf(seg)[3]) /\ IsNone(ValOf(seg)[1]) /\ IsNone(ValOf(seg)[2])

SegmentListCall ==
    /\ pc = "constructed"
    /\ call.args = <<>>
    /\ IsList(call.pre_release)
    /\ IsNone(call.local)
    /\ ReleaseInvariant(call.major, call.minor, call.patch)

IsSegmentValue(seg) ==
    /\ ~HasDefect(seg)
    /\ IsNone(ValOf(seg)[2]) \/ IsStr(ValOf(seg)[2])
    /\ IsNone(ValOf(seg)[3]) \/ IsInt(ValOf(seg)[3])

\* the trailing values encode pre-release segments: 3-tuples, or flat runs of three
EncodesPreRelease(args) ==
    /\ args # <<>>
    /\ \/ \A i \in DOMAIN args : IsTuple(args[i]) /\ IsSegmentValue(args[i])
       \/ /\ Len(args) % 3 = 0
          /\ \A k \in 0..((Len(args) \div 3) - 1) :
                IsSegmentValue(PyTuple(SubSeq(args, 3 * k + 1, 3 * k + 3)))

\* the trailing values encode local tokens: strs, flat or in one tuple
EncodesLocal(args) ==
    /\ args # <<>>
    /\ \/ \A i \in DOMAIN args : IsStr(args[i])
       \/ /\ Len(args) = 1 /\ IsTuple(args[1]) /\ ValOf(args[1]) # <<>>
          /\ \A i \in DOMAIN ValOf(args[1]) : IsStr(ValOf(args[1])[i])

\* C12: a constructor call that passes pre_release= and trailing positional values that
\* encode pre-release segments, or local= and trailing positional values that encode
\* local tokens, fails and makes no Version.
C12_NeverBothForms ==
    (/\ pc = "constructed"
     /\ \/ ~IsNone(call.pre_release) /\ EncodesPreRelease(call.args)
        \/ ~IsNone(call.local) /\ EncodesLocal(call.args))
    => err # "none" /\ a = NoVersion

\* a call with local= and flat local tokens has failed
C12_Witness ==
    /\ pc = "constructed"
    /\ IsNone(call.pre_release)
    /\ ~IsNone(call.local)
    /\ EncodesLocal(call.args)
    /\ Len(call.args) = 3
    /\ err = "ValueError"
    /\ a = NoVersion

-----------------------------------------------------------------------------
(* Converting a foreign version value *)

\* a foreign release has at most MaxRelease numbers
MaxRelease == 5

ForeignValue(is_version, release, pre, dev, post, local) ==
    [is_version |-> is_version, release |-> release, pre |-> pre, dev |-> dev, post |-> post,
     local |-> local]

\* the foreign values: every release of 1..MaxRelease numbers with every combination of
\* the markers and three local parts, and a value of another type
ForeignValues ==
    {ForeignValue(TRUE, x[1], x[2], x[3], x[4], x[5]) :
        x \in (SeqsUpTo({PyInt(n) : n \in Nums}, MaxRelease) \ {<<>>})
              \X {PyNone, PyTuple(<<PyStr(<<"a">>), PyInt(1)>>)}
              \X {PyNone, PyTuple(<<Dev, PyInt(0)>>)}
              \X {PyNone, PyTuple(<<PyStr(<<"p", "o", "s", "t">>), PyInt(1)>>)}
              \X {PyNone, PyTuple(<<PyStr(<<"a">>)>>), PyTuple(<<PyStr(<<"a">>), PyInt(1)>>)}}
    \cup {ForeignValue(FALSE, <<PyInt(1)>>, PyNone, PyNone, PyNone, PyNone)}

InitForeign ==
    /\ pc = "start"
    /\ call \in ForeignValues
    /\ text = <<>>
    /\ a = NoVersion /\ b = NoVersion /\ c = NoVersion
    /\ err = "none"
    /\ out = <<>>

\* a = Version.from_py_version(call)
FromPyVersion ==
    /\ pc = "start"
    /\ \E r \in {from_py_version(call)} :
          /\ err' = r.exc
          /\ a' = IF r.exc = "none" THEN r.val ELSE NoVersion
    /\ pc' = "converted"
    /\ UNCHANGED <<text, call, b, c, out>>

NextForeign == FromPyVersion

SpecForeign == InitForeign /\ [][NextForeign]_vars

\* the markers that are present in a foreign value
Markers(ver) == {k \in {"pre", "dev", "post"} : ~IsNone(ver[k])}

\* the segments of a Version's pre-release
SegmentsOf(v) == IF IsNone(v._pre_release) THEN {} ELSE Range(ValOf(v._pre_release))

\* the Version v has every release number, the marker and every local segment of ver
Represents(v, ver) ==
    /\ \A i \in 1..3 : i <= Len(ver.release) => <<v._major, v._minor, v._patch>>[i] = ver.release[i]
    /\ Len(ver.release) = 4 =>
          \E seg \in SegmentsOf(v) : IsNone(ValOf(seg)[2]) /\ ValOf(seg)[3] = ver.release[4]
    /\ \A k \in Markers(ver) :
          \E seg \in SegmentsOf(v) :
              ValOf(seg)[2] = ValOf(ver[k])[1] /\ ValOf(seg)[3] = ValOf(ver[k])[2]
    /\ ~IsNone(ver.local) =>
          /\ Len(local_to_tuple(v, FALSE)) = 2 * Len(ValOf(ver.local)) - 1
          /\ \A i \in DOMAIN ValOf(ver.local) :
                local_to_tuple(v, FALSE)[2 * i - 1] = PyStr(Format(ValOf(ver.local)[i]))

\* C13: when from_py_version returns a Version, every release number, the marker that is
\* present (pre, dev or post) with its type and number, and every local segment of the
\* foreign value is in that Version; a foreign value with two or more markers, with a 4th
\* release number and a marker, or with more than 4 release numbers fails with
\* NotImplementedError.
C13_ForeignFailsExplicitly ==
    (pc = "converted" /\ call.is_version) =>
        /\ err = "none" => Represents(a, call)
        /\ (\/ Cardinality(Markers(call)) >= 2
            \/ Len(call.release) = 4 /\ Markers(call) # {}
            \/ Len(call.release) > 4) => err = "NotImplementedError" /\ a = NoVersion

-----------------------------------------------------------------------------
(* Parsing a version string with a pre-release and a local part; the parsed *)
(* Version is rescanned, projected, respelled and taken through its tuple   *)

\* the pre-release of a parsed string has at most MaxPre characters, the local part at
\* most MaxLocal characters after the '+'
MaxPre == 3
MaxLocal == 5

PreAlphabet == {".", "-", "a", "B", "0", "1"}
LocalAlphabet == {".", "-", "a", "1"}

\* a release of one or of three numbers before any characters in the place of the
\* pre-release, the same before a local part, and any characters in the place of the
\* local part
TextStrings ==
    {x[1] \o x[2] : x \in {<<"1">>, <<"1", ".", "0", ".", "0">>} \X SeqsUpTo(PreAlphabet, MaxPre)}
    \cup {<<"1">> \o x \o <<"+", "a", "-", "B">> : x \in SeqsUpTo(PreAlphabet, MaxPre)}
    \cup {<<"1", "+">> \o x : x \in SeqsUpTo(LocalAlphabet, MaxLocal)}

InitText ==
    /\ pc = "start"
    /\ text \in TextStrings
    /\ call = <<>>
    /\ a = NoVersion /\ b = NoVersion /\ c = NoVersion
    /\ err = "none"
    /\ out = <<>>

\* the scan of _parse_pre_release_str on the pre-release capture: the parts that
\* findall returns and the tuples made of them
Scan(capture) ==
    [capture |-> capture, parts |-> FindAll(capture, 1),
     tuples |-> _parse_pre_release_str(capture)]

\* out = the scan of the pre-release capture of the match of text
Rescan ==
    /\ pc = "parsed"
    /\ \E m \in {MatchVersion(text)} :
          /\ m.matched
          /\ ~IsNone(m.prerelease)
          /\ out' = Scan(ValOf(m.prerelease))
    /\ pc' = "rescanned"
    /\ UNCHANGED <<text, call, a, b, c, err>>

\* out = a.pre_release_to_tuple() and a.pre_release_to_tuple(sort=True)
Project ==
    /\ pc = "parsed"
    /\ err = "none"
    /\ out' = [raw |-> pre_release_to_tuple(a, FALSE), sort |-> pre_release_to_tuple(a, TRUE)]
    /\ pc' = "projected"
    /\ UNCHANGED <<text, call, a, b, c, err>>

\* b = Version.from_tuple(a.to_tuple()); out = a.to_tuple() and b.to_tuple()
TupleRoundTrip ==
    /\ pc = "parsed"
    /\ err = "none"
    /\ \E r \in {from_tuple(to_tuple(a, FALSE))} :
          /\ err' = r.exc
          /\ b' = IF r.exc = "none" THEN r.val ELSE NoVersion
          /\ out' = [tuple |-> to_tuple(a, FALSE),
                     back |-> IF r.exc = "none" THEN to_tuple(r.val, FALSE) ELSE <<>>]
    /\ pc' = "retupled"
    /\ UNCHANGED <<text, call, a, c>>

\* the other separator; a string with the case of its j-th character changed
OtherSep(s) == IF s = Dot THEN Dash ELSE Dot

SwapCaseChar(ch) ==
    IF IsUpper(ch) THEN LowerChars[IndexOf(ch, UpperChars)]
    ELSE IF IsLower(ch) THEN UpperChars[IndexOf(ch, LowerChars)]
    ELSE ch

SwapCase(s, j) == PyStr([ValOf(s) EXCEPT ![j] = SwapCaseChar(@)])

LetterPositions(s) == {j \in DOMAIN ValOf(s) : IsLetter(ValOf(s)[j])}

\* the respellings of one segment: its separator replaced by the other one, dropped when
\* the segment has a type, added when it has none, and a letter of its type in the other
\* case
RespelledSegment(seg) ==
    (IF ~IsNone(seg[1]) THEN {<<"separator", PyTuple(<<OtherSep(seg[1]), seg[2], seg[3]>>)>>}
     ELSE {<<"add", PyTuple(<<Dot, seg[2], seg[3]>>)>>, <<"add", PyTuple(<<Dash, seg[2], seg[3]>>)>>})
    \cup (IF ~IsNone(seg[1]) /\ ~IsNone(seg[2])
          THEN {<<"drop", PyTuple(<<PyNone, seg[2], seg[3]>>)>>} ELSE {})
    \cup (IF ~IsNone(seg[2])
          THEN {<<"case", PyTuple(<<seg[1], SwapCase(seg[2], j), seg[3]>>)>> :
                   j \in LetterPositions(seg[2])}
          ELSE {})

\* the respellings of the i-th local token: a separator replaced by the other one, a
\* letter of a part in the other case
RespelledToken(tok, i) ==
    IF i % 2 = 0 THEN {<<"local separator", OtherSep(tok)>>}
    ELSE {<<"local case", SwapCase(tok, j)>> : j \in LetterPositions(tok)}

Respelling(kind, pre_release, local) ==
    [kind |-> kind, pre_release |-> pre_release, local |-> local]

\* the Versions with one respelling of v, as constructor arguments
Respellings(v) ==
    (IF IsNone(v._pre_release) THEN {}
     ELSE UNION {{Respelling(x[1], PyList([ValOf(v._pre_release) EXCEPT ![i] = x[2]]), v._local) :
                     x \in RespelledSegment(ValOf(ValOf(v._pre_release)[i]))} :
                 i \in DOMAIN ValOf(v._pre_release)})
    \cup
    UNION {{Respelling(x[1], v._pre_release, PyTuple([ValOf(v._local) EXCEPT ![i] = x[2]])) :
               x \in RespelledToken(ValOf(v._local)[i], i)} :
           i \in DOMAIN ValOf(v._local)}

\* b = Version(major, minor, patch, pre_release=..., local=...) with the fields of a and
\* one respelling; a == b, a < b and b < a are evaluated
Respell ==
    /\ pc = "parsed"
    /\ err = "none"
    /\ \E e \in Respellings(a) :
          \E r \in {__init__(a._major, a._minor, a._patch, <<>>, e.pre_release, e.local)} :
              /\ err' = r.exc
              /\ b' = IF r.exc = "none" THEN r.val ELSE NoVersion
              /\ out' = [kind |-> e.kind, eq |-> __eq__(r.val, a), ab |-> __lt__(a, r.val),
                         ba |-> __lt__(r.val, a)]
    /\ pc' = "respelled"
    /\ UNCHANGED <<text, call, a, c>>

NextText == FromStr \/ Rescan \/ Project \/ TupleRoundTrip \/ Respell

SpecText == InitText /\ [][NextText]_vars

\* the characters of text after the first '+'
AfterPlus(s) == SubSeq(s, (CHOOSE i \in DOMAIN s : s[i] = "+" /\ \A k \in 1..(i - 1) : s[k] # "+") + 1, Len(s))

HasPlus(s) == \E i \in DOMAIN s : s[i] = "+"

SepCount(s) == Cardinality({i \in DOMAIN s : IsSep(s[i])})

\* C14: a Version parsed from a string with a local part '+p1 s1 p2 ... pn' has the local
\* sequence (p1, s1, p2, ..., pn): 2n-1 tokens whose concatenation is the local part
\* without its '+'.
C14_LocalKeepsEveryToken ==
    (pc = "parsed" /\ err = "none" /\ HasPlus(text)) =>
        /\ IsTuple(a._local)
        /\ Len(ValOf(a._local)) = 2 * SepCount(AfterPlus(text)) + 1
        /\ Concat([i \in DOMAIN ValOf(a._local) |-> ValOf(ValOf(a._local)[i])]) = AfterPlus(text)


\* the type and the patch of the segment seg in its sort tuple
TypeForSort(seg) == IF IsNone(seg[2]) THEN PyStr(<<>>) ELSE PyStr(Lower(ValOf(seg[2])))
PatchForSort(seg) == IF IsNone(seg[3]) THEN PyInt(0) ELSE seg[3]

SegmentAt(v, i) == ValOf(ValOf(v._pre_release)[i])

\* C15 as stated: pre_release_to_tuple(sort=True) of a Version with a pre-release has one
\* tuple (0, lowercased type or '', patch or 0) for each segment, so that the first
\* field of every segment is 0.
C15_EverySegmentFlagZero ==
    (pc = "projected" /\ ~IsNone(a._pre_release)) =>
        /\ Len(out.sort) = Len(ValOf(a._pre_release))
        /\ \A i \in DOMAIN out.sort :
              out.sort[i] = PyTuple(<<PyInt(0), TypeForSort(SegmentAt(a, i)),
                                      PatchForSort(SegmentAt(a, i))>>)

\* C15 amended: pre_release_to_tuple(sort=True) of a Version with a pre-release has one
\* tuple (flag, lowercased type or '', patch or 0) for each segment, where the flag is
\* 0 for a segment with a type and 1 for a segment without one; an absent pre-release
\* gives the single tuple (1, '', 0).
C15_TypedSegmentFlagZero ==
    /\ (pc = "projected" /\ ~IsNone(a._pre_release)) =>
          /\ Len(out.sort) = Len(ValOf(a._pre_release))
          /\ \A i \in DOMAIN out.sort :
                out.sort[i] = PyTuple(<<IF IsNone(SegmentAt(a, i)[2]) THEN PyInt(1) ELSE PyInt(0),
                                        TypeForSort(SegmentAt(a, i)),
                                        PatchForSort(SegmentAt(a, i))>>)
    /\ (pc = "projected" /\ IsNone(a._pre_release)) =>
          out.sort = <<PyTuple(<<PyInt(1), PyStr(<<>>), PyInt(0)>>)>>

\* a pre-release with a segment without a type and a segment with an upper-case type
\* has been projected
C15_Witness ==
    /\ pc = "projected"
    /\ ~IsNone(a._pre_release)
    /\ Len(out.sort) = 2
    /\ IsNone(SegmentAt(a, 1)[2])
    /\ SegmentAt(a, 2)[2] = PyStr(<<"B">>)
    /\ out.sort[1] = PyTuple(<<PyInt(1), PyStr(<<>>), PyInt(1)>>)
    /\ out.sort[2] = PyTuple(<<PyInt(0), PyStr(<<"b">>), PyInt(0)>>)

\* C16: the scan of the pre-release capture of a string that matches the grammar yields
\* parts that are not empty, that each match the segment grammar as a whole and whose
\* concatenation is the capture; _parse_pre_release_str returns one tuple for each part
\* and from_str does not raise.
C16_CleanDecomposition ==
    pc = "rescanned" =>
        /\ err = "none"
        /\ out.tuples.exc = "none"
        /\ Len(ValOf(out.tuples.val)) = Len(out.parts)
        /\ Concat(out.parts) = out.capture
        /\ \A i \in DOMAIN out.parts :
              /\ out.parts[i] # <<>>
              /\ IsSegmentStr(out.parts[i])
              /\ PartMatch(out.parts[i]).exc = "none"

\* a capture of two segments with no separator between them has been scanned
C16_Witness ==
    /\ pc = "rescanned"
    /\ Len(out.parts) = 2
    /\ ~IsSep(out.parts[1][1])
    /\ ~IsSep(out.parts[2][1])
    /\ Concat(out.parts) = out.capture

C19_FlatTupleRoundTrip ==
    pc = "retupled" =>
        /\ err = "none"
        /\ out.back = out.tuple
        /\ b._pre_release = a._pre_release
        /\ b._local = a._local

\* a Version with two segments, the first without a separator, and three local tokens
\* has gone through its tuple
C19_Witness ==
    /\ pc = "retupled"
    /\ err = "none"
    /\ ~IsNone(a._pre_release)
    /\ Len(ValOf(a._pre_release)) = 2
    /\ IsNone(SegmentAt(a, 1)[1])
    /\ Len(ValOf(a._local)) = 3
    /\ out.back = out.tuple

-----------------------------------------------------------------------------
(* The ordering of two Versions by their local parts *)

\* a local part has at most MaxTokens tokens
MaxTokens == 3

LocalValues == {PyStr(<<"a">>), PyStr(<<"B">>), Dot, Dash}

\* the local arguments: none, and the tuples of up to MaxTokens strs
TieLocals == {PyNone} \cup {PyTuple(x) : x \in SeqsUpTo(LocalValues, MaxTokens)}

\* the Versions whose local parts are compared: a is one of TieVersions, b one of
\* TieOthers, with a release and a pre-release that sort as those of a or differ
TieVersions ==
    Constructed({PyInt(1)} \X {PyNone} \X {PyNone}
                \X {PyNone, PyList(<<PyTuple(<<Dot, PyStr(<<"a">>), PyNone>>)>>)} \X TieLocals)

TieOthers ==
    Constructed({PyInt(1)} \X {PyNone, PyInt(0)} \X {PyNone}
                \X {PyNone, PyList(<<PyTuple(<<Dash, PyStr(<<"A">>), PyInt(0)>>)>>)} \X TieLocals)

InitTie ==
    /\ pc = "constructed"
    /\ a \in TieVersions
    /\ b \in TieOthers
    /\ c = NoVersion
    /\ text = <<>>
    /\ call = <<>>
    /\ err = "none"
    /\ out = <<>>

\* a < b and b < a are evaluated
CompareTwo ==
    /\ pc = "constructed"
    /\ pc' = "compared"
    /\ out' = [ab |-> __lt__(a, b), ba |-> __lt__(b, a)]
    /\ UNCHANGED <<text, call, a, b, c, err>>

NextTie == CompareTwo

SpecTie == InitTie /\ [][NextTie]_vars

IsStrictPrefix(xs, ys) == Len(xs) < Len(ys) /\ SubSeq(ys, 1, Len(xs)) = xs

\* the first index at which xs and ys, neither a prefix of the other, differ
FirstMismatch(xs, ys) ==
    CHOOSE k \in 1..Len(xs) : xs[k] # ys[k] /\ \A h \in 1..(k - 1) : xs[h] = ys[h]

\* the order of two sort-normalized tokens: ints by value, strs by code point
TokenLess(x, y) == IF IsInt(x) /\ IsInt(y) THEN ValOf(x) < ValOf(y) ELSE StrLess(ValOf(x), ValOf(y))

\* the local parts xs and ys decide a comparison that returned r
LocalDecides(xs, ys, r) ==
    IF xs = ys THEN Returns(r, FALSE)
    ELSE IF IsStrictPrefix(xs, ys) THEN Returns(r, TRUE)
    ELSE IF IsStrictPrefix(ys, xs) THEN Returns(r, FALSE)
    ELSE /\ TypeOf(xs[FirstMismatch(xs, ys)]) = TypeOf(ys[FirstMismatch(xs, ys)])
         /\ Returns(r, TokenLess(xs[FirstMismatch(xs, ys)], ys[FirstMismatch(xs, ys)]))

\* C17: when two Versions have the same sort-normalized release and pre-release, the one
\* whose sort-normalized local sequence is a strict prefix of the other's is less, else
\* the first differing pair of tokens decides a < b and b < a, and neither comparison
\* ends in the NotImplementedError of the local stage.
C17_LocalTieBreak ==
    (/\ pc = "compared"
     /\ release_to_tuple(a, TRUE) = release_to_tuple(b, TRUE)
     /\ pre_release_to_tuple(a, TRUE) = pre_release_to_tuple(b, TRUE))
    => /\ LocalDecides(local_to_tuple(a, TRUE), local_to_tuple(b, TRUE), out.ab)
       /\ LocalDecides(local_to_tuple(b, TRUE), local_to_tuple(a, TRUE), out.ba)
       /\ out.ab.exc # "NotImplementedError" /\ out.ba.exc # "NotImplementedError"

====
